---- MODULE Spec2Model ----
(***************************************************************************)
(* Model of the image optimizer API.                                       *)
(*                                                                         *)
(* The upload route (apps/api/routes/upload.ts, kept in                    *)
(* src/apps/api/libs/compress/index.ts lines 106-341): the POST            *)
(* /upload/optimize handler, the upload directory it writes to, and the    *)
(* calls it makes to the image library.  A request is a handler            *)
(* invocation.  The handler runs on a single threaded event loop: it can   *)
(* be interleaved with other requests only at its await points, and each   *)
(* action is a stretch of the handler between two of them (or a finer step *)
(* of such a stretch).                                                     *)
(*                                                                         *)
(* The server (lines 343-387): its static route for uploads, under the     *)
(* environment it was started with.                                        *)
(*                                                                         *)
(* The compression plugin (lines 1-104): its mapResponse hook.             *)
(***************************************************************************)
EXTENDS Integers, Sequences, FiniteSets, TLC

----------------------------------------------------------------------------
(* Bounds of the model *)

\* Largest pixel width and height of an uploaded image.
MaxDim == 2
\* Number of requests in flight at once in ConcSpec.
MaxRequests == 2
\* Largest number of entries in an Accept-Encoding header.
MaxListed == 2

----------------------------------------------------------------------------
(* JavaScript values *)

\* The numeric values a local of the handler can hold.
Undefined == [t |-> "undefined"]
NaN == [t |-> "NaN"]
Num(n) == [t |-> "number", v |-> n]
Array(a) == [t |-> "array", v |-> a]

\* Characters the modelled numeric form strings are made of.
Digits == <<"0", "1", "2", "3", "4", "5", "6", "7", "8", "9">>

IsDigit(c) == \E i \in 1..Len(Digits) : Digits[i] = c

DigitValue(c) == (CHOOSE i \in 1..Len(Digits) : Digits[i] = c) - 1

IsDigits(s) == Len(s) > 0 /\ \A i \in 1..Len(s) : IsDigit(s[i])

RECURSIVE Decimal(_)
Decimal(s) ==
    IF Len(s) = 0 THEN 0
    ELSE 10 * Decimal(SubSeq(s, 1, Len(s) - 1)) + DigitValue(s[Len(s)])

\* Number(string) on strings over digits, "-" and letters: the empty string
\* is 0, an optionally signed run of digits is its value, anything else NaN.
Number(s) ==
    IF Len(s) = 0 THEN Num(0)
    ELSE IF IsDigits(s) THEN Num(Decimal(s))
    ELSE IF Head(s) = "-" /\ IsDigits(Tail(s)) THEN Num(0 - Decimal(Tail(s)))
    ELSE NaN

\* Truthiness of a number: undefined, NaN and 0 are falsy.
TruthyNum(n) == n.t = "number" /\ n.v # 0

\* String(error) of an Error object with the given message.
String(message) == "Error: " \o message

\* An optional form field: present with a non-empty string.
Has(b, field) == field \in DOMAIN b

TruthyField(b, field) == Has(b, field) /\ Len(b[field]) > 0

----------------------------------------------------------------------------
(* Environment, identifiers and paths *)

\* Paths and urls are sequences of tokens: names, ".", and the separator.
\* The environment after envSchema.parse: a variable that is not set gets
\* its default.
DefaultEnv ==
    [UPLOAD_DIR |-> <<".", "/", "uploads">>, PUBLIC_URL |-> <<"/", "uploads">>]

\* The environments of the configuration specification; <<>> is a variable
\* set to the empty string.
Envs ==
    [UPLOAD_DIR : {<<>>, <<".", "/", "uploads">>, <<"uploads">>, <<".", "/", "data">>},
     PUBLIC_URL : {<<>>, <<"/", "uploads">>, <<"/", "files">>}]

\* nanoid() returns a string over its alphabet (letters, digits, "_", "-");
\* the model keeps identifiers of one token: two letters and the run "_temp".
IdAlphabet == {"a", "b", "_temp"}

NanoIds == {<<c>> : c \in IdAlphabet}

\* `${fileId}.${outputFormat}` as a sequence of tokens.
Filename(id, fmt) == id \o <<".", fmt>>

\* `${fileId}_temp.jpg`
TempName(id) == id \o <<"_temp", ".", "jpg">>

\* path.normalize on the paths of the model: "." segments are dropped.
RECURSIVE Normalize(_)
Normalize(path) ==
    IF Len(path) >= 2 /\ path[1] = "." /\ path[2] = "/"
    THEN Normalize(SubSeq(path, 3, Len(path)))
    ELSE path

\* join(dir, name): the two joined by the separator, normalized.
Join(dir, name) == Normalize(dir \o <<"/">> \o name)

AllowList == {"webp", "avif", "jpeg", "png"}

\* ClampFormat letting every requested format through.
ClampFormat_Unclamped(fmt) == fmt

\* ["webp", "avif", "jpeg", "png"].includes(format) ? format : "webp"
ClampFormat(fmt) == IF fmt \in AllowList THEN fmt ELSE "webp"

DefaultQuality == 80

----------------------------------------------------------------------------
(* Requests *)

Requests == 1..MaxRequests

Images == [w : 1..MaxDim, h : 1..MaxDim]

\* An uploaded File: its byte size and, when it has bytes, the image in them.
UploadedFiles == {[size |-> 0]} \cup {[size |-> 1, image |-> i] : i \in Images}

FormatStrings == {"", "webp", "avif", "jpeg", "png", "gif"}

QualityStrings == {<<>>, <<"0">>, <<"8", "0">>, <<"1", "0", "1">>, <<"x">>}

WidthStrings == {<<"0">>, <<"1">>, <<"2">>, <<"-", "1">>}

HeightStrings == {<<"0">>, <<"1">>}

SourceFormatStrings == {"avif", "png"}

\* Zero or one value of a set: an optional field.
Optional(S) == {{}} \cup {{v} : v \in S}

Field(name, opt) ==
    IF opt = {} THEN [x \in {} |-> 0]
    ELSE [x \in {name} |-> CHOOSE v \in opt : TRUE]

MakeBody(file, format, quality, width, height, sourceFormat) ==
    Field("file", file) @@ Field("format", format) @@ Field("quality", quality)
        @@ Field("width", width) @@ Field("height", height)
        @@ Field("sourceFormat", sourceFormat)

\* The multipart bodies of the sequential specification.
Bodies ==
    {MakeBody(f, fm, q, w, h, s) :
        f \in Optional(UploadedFiles), fm \in Optional(FormatStrings),
        q \in Optional(QualityStrings), w \in Optional(WidthStrings),
        h \in Optional(HeightStrings), s \in Optional(SourceFormatStrings)}

\* The bodies of the concurrent specification: the fields that decide the
\* paths a request touches, the others left out.
ConcBodies ==
    {MakeBody(f, {"jpeg"}, {}, {}, {}, s) :
        f \in Optional({[size |-> 1, image |-> [w |-> 1, h |-> 1]]}),
        s \in Optional({"avif"})}

----------------------------------------------------------------------------
(* The image library (sharp), as the handler uses it *)

\* Rounded quotient of two positive integers.
RoundDiv(a, b) == (2 * a + b) \div (2 * b)

AtLeastOne(n) == IF n < 1 THEN 1 ELSE n

\* Output size of resize({width, height, fit, withoutEnlargement}) on an
\* image: the whole target box must contain the result ("inside"), and with
\* withoutEnlargement the image is never scaled up.
ResizeDims(img, opts) ==
    LET hasW == opts.width # Undefined
        hasH == opts.height # Undefined
        bw == IF hasW THEN opts.width.v ELSE 0
        bh == IF hasH THEN opts.height.v ELSE 0
        \* the width bound is the tighter one: bw / w <= bh / h
        byWidth == hasW /\ (~hasH \/ bw * img.h <= bh * img.w)
        scaled ==
            IF byWidth
            THEN [w |-> bw, h |-> AtLeastOne(RoundDiv(img.h * bw, img.w))]
            ELSE [w |-> AtLeastOne(RoundDiv(img.w * bh, img.h)), h |-> bh]
        enlarges == IF byWidth THEN bw >= img.w ELSE bh >= img.h
    IN  IF opts.fit = "inside" /\ opts.withoutEnlargement /\ enlarges
        THEN img
        ELSE scaled

\* resize() accepts a width or height only if it is a positive integer.
ValidDimension(d) == d = Undefined \/ (d.t = "number" /\ d.v > 0)

\* The encoders accept an integer quality of 1..100 (png: 0..100).
ValidQuality(fmt, q) ==
    q.t = "number" /\ q.v <= 100 /\ q.v >= (IF fmt = "png" THEN 0 ELSE 1)

----------------------------------------------------------------------------
(* State *)

VARIABLES
    pc,             \* where each request's handler stands
    body,           \* the parsed multipart body of each request
    fileId,         \* the identifier nanoid() gave the request
    sharpInstance,  \* the pipeline the handler builds
    settled,        \* outcome of the toFile() promise of the AVIF transcode
    outputBuffer,   \* the encoded output
    response,       \* set.status and the returned body
    files,          \* the upload directory: path -> content
    steps,          \* the steps each handler has taken, in order
    touched,        \* the files replaced or removed by a request other than their writer
    cleanupErr,     \* whether the unlink of the temp file threw and was logged
    ENV,            \* the environment the server was started with
    served,         \* what the static route answered to a GET of the returned url
    mapResponse     \* one run of the compression plugin's mapResponse hook

vars ==
    <<pc, body, fileId, sharpInstance, settled, outputBuffer, response, files,
      steps, touched, cleanupErr, ENV, served, mapResponse>>

\* The state outside the upload handler.
outside == <<ENV, served, mapResponse>>

NoBody == [x \in {} |-> 0]
NoId == <<>>
NoInstance == [input |-> [kind |-> "none"], resizeCalls |-> <<>>, encoderCalls |-> <<>>]
NoBuffer == [length |-> 0]
NoResponse == [status |-> 0]

NotServed == [status |-> 0]
NotCalled == [phase |-> "idle"]

\* The upload route and its directory before any request.
UploadInit ==
    /\ pc = [r \in Requests |-> "idle"]
    /\ body = [r \in Requests |-> NoBody]
    /\ fileId = [r \in Requests |-> NoId]
    /\ sharpInstance = [r \in Requests |-> NoInstance]
    /\ settled = [r \in Requests |-> "pending"]
    /\ outputBuffer = [r \in Requests |-> NoBuffer]
    /\ response = [r \in Requests |-> NoResponse]
    /\ files = [p \in {} |-> 0]
    /\ steps = [r \in Requests |-> <<>>]
    /\ touched = {}
    /\ cleanupErr = [r \in Requests |-> FALSE]
    /\ served = [r \in Requests |-> NotServed]

\* The server started with no environment variable set.
Init ==
    /\ UploadInit
    /\ ENV = DefaultEnv
    /\ mapResponse = NotCalled

----------------------------------------------------------------------------
(* Configuration, lines 114-117 *)

\* const UPLOAD_DIR = ENV.UPLOAD_DIR || "./uploads"
UPLOAD_DIR ==
    IF Len(ENV.UPLOAD_DIR) > 0 THEN ENV.UPLOAD_DIR ELSE <<".", "/", "uploads">>

\* const PUBLIC_URL = ENV.PUBLIC_URL || "/uploads"
PUBLIC_URL ==
    IF Len(ENV.PUBLIC_URL) > 0 THEN ENV.PUBLIC_URL ELSE <<"/", "uploads">>

\* `${PUBLIC_URL}/${filename}`
Url(name) == PUBLIC_URL \o <<"/">> \o name

----------------------------------------------------------------------------
(* The handler's locals, lines 130-152 and 190 *)

\* const format = body.format || "webp"
format(r) == IF TruthyField(body[r], "format") THEN body[r].format ELSE "webp"

\* quality falling back to the uploader's default of 75.
quality_UploaderDefault(r) ==
    IF TruthyField(body[r], "quality") THEN Number(body[r].quality)
    ELSE Num(75)

\* const quality = body.quality ? Number(body.quality) : 80
quality(r) ==
    IF TruthyField(body[r], "quality") THEN Number(body[r].quality)
    ELSE Num(DefaultQuality)

\* const width = body.width ? Number(body.width) : undefined
width(r) ==
    IF TruthyField(body[r], "width") THEN Number(body[r].width) ELSE Undefined

\* const height = body.height ? Number(body.height) : undefined
height(r) ==
    IF TruthyField(body[r], "height") THEN Number(body[r].height) ELSE Undefined

\* sourceFormat taking an undeclared source for AVIF.
sourceFormat_DefaultAvif(r) ==
    IF TruthyField(body[r], "sourceFormat") THEN body[r].sourceFormat
    ELSE "avif"

\* const sourceFormat = body.sourceFormat || "unknown"
sourceFormat(r) ==
    IF TruthyField(body[r], "sourceFormat") THEN body[r].sourceFormat
    ELSE "unknown"

outputFormat(r) == ClampFormat(format(r))

filename(r) == Filename(fileId[r], outputFormat(r))

outputPath(r) == Join(UPLOAD_DIR, filename(r))

tempJpegPath(r) == Join(UPLOAD_DIR, TempName(fileId[r]))

\* The identifiers handed out so far.
Issued == {fileId[q] : q \in Requests} \ {NoId}

\* nanoid returning identifiers it has returned before.
nanoid_Repeating(used) == NanoIds

\* nanoid(): an identifier no earlier call returned.
nanoid(used) == NanoIds \ used

----------------------------------------------------------------------------
(* Responses *)

\* A step of the handler that ran to its end.
Step(r, label) ==
    steps' = [steps EXCEPT ![r] = Append(@, [step |-> label, error |-> "none"])]

\* A step of the handler that threw an Error with the given message.
Throw(r, label, message) ==
    steps' = [steps EXCEPT ![r] = Append(@, [step |-> label, error |-> message])]

Respond(r, status, b) ==
    /\ response' = [response EXCEPT ![r] = [status |-> status, body |-> b]]
    /\ pc' = [pc EXCEPT ![r] = "done"]

\* InvalidFile without the size test.
InvalidFile_IgnoresSize(b) == ~Has(b, "file")

\* if (!file || !file.size), lines 138-141
InvalidFile(b) == ~Has(b, "file") \/ b.file.size = 0

BadRequest(r) == Respond(r, 400, [error |-> "Invalid file data"])

\* catch (error), lines 317-321
OuterCatch(r, message) ==
    Respond(r, 500,
        [error |-> "Image processing failed", details |-> String(message)])

\* FinalCatch answering like the outer catch, without the stage label.
FinalCatch_NoStage(r, message) ==
    Respond(r, 500,
        [error |-> "Image processing failed in final stage",
         details |-> String(message)])

\* catch (processError), lines 308-316
FinalCatch(r, message) ==
    Respond(r, 500,
        [error |-> "Image processing failed in final stage",
         details |-> String(message), stage |-> "final_processing"])

\* Success reporting the size of the upload instead of the output's.
Success_UploadSize(r) ==
    Respond(r, 200,
        [success |-> TRUE,
         result |-> [id |-> fileId[r], format |-> outputFormat(r),
                     size |-> body[r].file.size,
                     width |-> outputBuffer[r].image.w,
                     height |-> outputBuffer[r].image.h,
                     url |-> Url(filename(r))]])

\* The success body, lines 297-307; metadata is that of the output buffer.
Success(r) ==
    Respond(r, 200,
        [success |-> TRUE,
         result |-> [id |-> fileId[r], format |-> outputFormat(r),
                     size |-> outputBuffer[r].length,
                     width |-> outputBuffer[r].image.w,
                     height |-> outputBuffer[r].image.h,
                     url |-> Url(filename(r))]])

----------------------------------------------------------------------------
(* The upload directory *)

Exists(path) == path \in DOMAIN files

WriteTo(path, content) == (path :> content) @@ files

Without(path) == [p \in DOMAIN files \ {path} |-> files[p]]

\* The request replaces or removes the file at the path, if there is one;
\* it is recorded when the file is another request's.
Touch(r, path) ==
    touched' = IF Exists(path) /\ files[path].writer # r
               THEN touched \cup {[by |-> r, path |-> path,
                                   owner |-> files[path].writer]}
               ELSE touched

\* Cleanup leaving the temp file where it is.
Cleanup_Skipped(r) == UNCHANGED <<files, touched, cleanupErr>>

\* finally { if (existsSync(tempJpegPath)) unlinkSync(tempJpegPath) }
\* in its own try/catch, lines 214-223: a failing unlink leaves the file.
Cleanup(r) ==
    IF Exists(tempJpegPath(r))
    THEN \E unlinked \in BOOLEAN :
            IF unlinked
            THEN /\ files' = Without(tempJpegPath(r))
                 /\ Touch(r, tempJpegPath(r))
                 /\ UNCHANGED cleanupErr
            ELSE /\ cleanupErr' = [cleanupErr EXCEPT ![r] = TRUE]
                 /\ UNCHANGED <<files, touched>>
    ELSE UNCHANGED <<files, touched, cleanupErr>>

----------------------------------------------------------------------------
(* The handler, POST /upload/optimize *)

\* Lines 130-144: parse the body, validate the file, start reading it.
Receive(r, B) ==
    /\ pc[r] = "idle"
    /\ \E b \in B :
        /\ body' = [body EXCEPT ![r] = b]
        /\ IF InvalidFile(b)
           THEN BadRequest(r)
           ELSE /\ pc' = [pc EXCEPT ![r] = "arrayBuffer"]
                /\ UNCHANGED response
    /\ Step(r, "validate")
    /\ UNCHANGED <<fileId, sharpInstance, settled, outputBuffer, files, touched,
                   cleanupErr>>
    /\ UNCHANGED outside

\* Lines 144-163: the buffer arrives (or the read fails), then the id, the
\* output name and the first pipeline.
ArrayBuffer(r) ==
    /\ pc[r] = "arrayBuffer"
    /\ \E ok \in BOOLEAN :
        IF ok
        THEN /\ \E id \in nanoid(Issued) :
                    fileId' = [fileId EXCEPT ![r] = id]
             /\ sharpInstance' = [sharpInstance EXCEPT ![r] =
                    [input |-> [kind |-> "original", image |-> body[r].file.image],
                     resizeCalls |-> <<>>, encoderCalls |-> <<>>]]
             /\ pc' = [pc EXCEPT ![r] = "inputMetadata"]
             /\ Step(r, "buffer")
             /\ UNCHANGED response
        ELSE /\ Throw(r, "buffer", "arrayBuffer")
             /\ OuterCatch(r, "arrayBuffer")
             /\ UNCHANGED <<fileId, sharpInstance>>
    /\ UNCHANGED <<body, settled, outputBuffer, files, touched, cleanupErr>>
    /\ UNCHANGED outside

\* Lines 162-182: the input metadata is logged, a failure of it too; then
\* the branch on the declared source format.
InputMetadata(r) ==
    /\ pc[r] = "inputMetadata"
    /\ pc' = [pc EXCEPT ![r] =
            IF sourceFormat(r) = "avif" THEN "toFile" ELSE "resize"]
    /\ UNCHANGED <<body, fileId, sharpInstance, settled, outputBuffer,
                   response, files, steps, touched, cleanupErr>>
    /\ UNCHANGED outside

\* Lines 194-196: sharp(originalBuffer).jpeg({quality: 90}).toFile(temp).
\* The library writes the file and resolves, or rejects, having written
\* nothing or a partial file.
ToFile(r) ==
    /\ pc[r] = "toFile"
    /\ \E outcome \in {"written", "partial", "nothing"} :
        /\ IF outcome = "nothing"
           THEN UNCHANGED <<files, touched>>
           ELSE /\ files' = WriteTo(tempJpegPath(r),
                        [writer |-> r, kind |-> "temp", format |-> "jpeg",
                         image |-> body[r].file.image])
                /\ Touch(r, tempJpegPath(r))
        /\ settled' = [settled EXCEPT ![r] =
                IF outcome = "written" THEN "resolved" ELSE "rejected"]
        /\ IF outcome = "written" THEN Step(r, "avifTempFile")
           ELSE Throw(r, "avifTempFile", "toFile")
    /\ pc' = [pc EXCEPT ![r] = "toFileSettled"]
    /\ UNCHANGED <<body, fileId, sharpInstance, outputBuffer, response, cleanupErr>>
    /\ UNCHANGED outside

\* Lines 198-223: after toFile resolved, the pipeline is rebuilt on the temp
\* file path and the finally block removes the file; after it rejected, the
\* catch block starts the in-memory conversion.
AfterToFile(r) ==
    /\ pc[r] = "toFileSettled"
    /\ IF settled[r] = "resolved"
       THEN /\ sharpInstance' = [sharpInstance EXCEPT ![r] =
                    [input |-> [kind |-> "file", path |-> tempJpegPath(r)],
                     resizeCalls |-> <<>>, encoderCalls |-> <<>>]]
            /\ Cleanup(r)
            /\ pc' = [pc EXCEPT ![r] = "resize"]
       ELSE /\ pc' = [pc EXCEPT ![r] = "memory"]
            /\ UNCHANGED <<sharpInstance, files, touched, cleanupErr>>
    /\ UNCHANGED <<body, fileId, settled, outputBuffer, response, steps>>
    /\ UNCHANGED outside

\* MemoryToBuffer without catch (avifErr): the failure of the in-memory
\* conversion reaches the outer catch.
MemoryToBuffer_Rethrows(r) ==
    /\ pc[r] = "memory"
    /\ \E ok \in BOOLEAN :
        IF ok
        THEN /\ sharpInstance' = [sharpInstance EXCEPT ![r] =
                    [input |-> [kind |-> "jpegBuffer", image |-> body[r].file.image],
                     resizeCalls |-> <<>>, encoderCalls |-> <<>>]]
             /\ Step(r, "avifMemory")
             /\ pc' = [pc EXCEPT ![r] = "resize"]
             /\ UNCHANGED response
        ELSE /\ UNCHANGED sharpInstance
             /\ Throw(r, "avifMemory", "toBuffer")
             /\ OuterCatch(r, "toBuffer")
    /\ Cleanup(r)
    /\ UNCHANGED <<body, fileId, settled, outputBuffer>>
    /\ UNCHANGED outside

\* Lines 203-231: sharp(originalBuffer).jpeg({quality: 90}).toBuffer().  On
\* success the pipeline is rebuilt on the JPEG buffer; on failure the
\* exception reaches catch (avifErr), which only logs.  The finally block
\* runs in both cases.
MemoryToBuffer(r) ==
    /\ pc[r] = "memory"
    /\ \E ok \in BOOLEAN :
        IF ok
        THEN /\ sharpInstance' = [sharpInstance EXCEPT ![r] =
                    [input |-> [kind |-> "jpegBuffer", image |-> body[r].file.image],
                     resizeCalls |-> <<>>, encoderCalls |-> <<>>]]
             /\ Step(r, "avifMemory")
        ELSE /\ UNCHANGED sharpInstance
             /\ Throw(r, "avifMemory", "toBuffer")
    /\ Cleanup(r)
    /\ pc' = [pc EXCEPT ![r] = "resize"]
    /\ UNCHANGED <<body, fileId, settled, outputBuffer, response>>
    /\ UNCHANGED outside

\* ResizeOptions without the never-enlarge option.
ResizeOptions_Enlarging(r) ==
    [width |-> IF TruthyNum(width(r)) THEN width(r) ELSE Undefined,
     height |-> IF TruthyNum(height(r)) THEN height(r) ELSE Undefined,
     fit |-> "inside", withoutEnlargement |-> FALSE]

\* The options of the resize call, lines 236-241.
ResizeOptions(r) ==
    [width |-> IF TruthyNum(width(r)) THEN width(r) ELSE Undefined,
     height |-> IF TruthyNum(height(r)) THEN height(r) ELSE Undefined,
     fit |-> "inside", withoutEnlargement |-> TRUE]

\* Lines 234-242: if (width || height) sharpInstance.resize({...}); the
\* call throws on a dimension that is not a positive integer.
Resize(r) ==
    /\ pc[r] = "resize"
    /\ IF TruthyNum(width(r)) \/ TruthyNum(height(r))
       THEN /\ sharpInstance' = [sharpInstance EXCEPT ![r].resizeCalls =
                    Append(@, ResizeOptions(r))]
            /\ IF /\ ValidDimension(ResizeOptions(r).width)
                  /\ ValidDimension(ResizeOptions(r).height)
               THEN /\ Step(r, "resize")
                    /\ pc' = [pc EXCEPT ![r] = "encoder"]
                    /\ UNCHANGED response
               ELSE /\ Throw(r, "resize", "Expected positive integer")
                    /\ OuterCatch(r, "Expected positive integer")
       ELSE /\ pc' = [pc EXCEPT ![r] = "encoder"]
            /\ UNCHANGED <<sharpInstance, steps, response>>
    /\ UNCHANGED <<body, fileId, settled, outputBuffer, files, touched, cleanupErr>>
    /\ UNCHANGED outside

\* The encoder calls of switch (outputFormat), lines 245-267: the call of
\* the matching case, none when no case matches.
EncoderCalls(fmt, q) ==
    CASE fmt = "webp" -> <<[encoder |-> "webp", quality |-> q]>>
      [] fmt = "avif" -> <<[encoder |-> "avif", quality |-> q, effort |-> 4,
                            chromaSubsampling |-> "4:2:0"]>>
      [] fmt = "jpeg" -> <<[encoder |-> "jpeg", quality |-> q]>>
      [] fmt = "png" -> <<[encoder |-> "png", quality |-> q]>>
      [] OTHER -> <<>>

\* Lines 244-267: the encoder of the output format is set on the pipeline;
\* the call throws on a quality outside the encoder's range.
Encoder(r) ==
    /\ pc[r] = "encoder"
    /\ sharpInstance' = [sharpInstance EXCEPT ![r].encoderCalls =
            @ \o EncoderCalls(outputFormat(r), quality(r))]
    /\ IF \A i \in 1..Len(EncoderCalls(outputFormat(r), quality(r))) :
            ValidQuality(EncoderCalls(outputFormat(r), quality(r))[i].encoder,
                         EncoderCalls(outputFormat(r), quality(r))[i].quality)
       THEN /\ Step(r, "encoder")
            /\ pc' = [pc EXCEPT ![r] = "toBuffer"]
            /\ UNCHANGED response
       ELSE /\ Throw(r, "encoder", "Expected integer between 1 and 100 for quality")
            /\ OuterCatch(r, "Expected integer between 1 and 100 for quality")
    /\ UNCHANGED <<body, fileId, settled, outputBuffer, files, touched, cleanupErr>>
    /\ UNCHANGED outside

\* The image a pipeline decodes when it runs: the buffer it was built on,
\* or what the file at its path holds then.
InputReadable(inst) == inst.input.kind # "file" \/ Exists(inst.input.path)

InputImage(inst) ==
    IF inst.input.kind = "file" THEN files[inst.input.path].image
    ELSE inst.input.image

\* The byte length of an encoded image, abstracted as one byte per pixel.
EncodedLength(img) == img.w * img.h

\* The pixel size the pipeline produces.
OutputImage(inst) ==
    IF Len(inst.resizeCalls) = 0 THEN InputImage(inst)
    ELSE ResizeDims(InputImage(inst), inst.resizeCalls[Len(inst.resizeCalls)])

\* The format the pipeline encodes to: that of the last encoder call, the
\* input's own format when no encoder was set.
OutputEncoding(inst) ==
    IF Len(inst.encoderCalls) = 0 THEN "input"
    ELSE inst.encoderCalls[Len(inst.encoderCalls)].encoder

\* Lines 270-277: await sharpInstance.toBuffer().  The pipeline reads its
\* input now; a pipeline built on a file path throws when the file is gone.
ToBuffer(r) ==
    /\ pc[r] = "toBuffer"
    /\ IF ~InputReadable(sharpInstance[r])
       THEN /\ Throw(r, "toBuffer", "Input file is missing")
            /\ FinalCatch(r, "Input file is missing")
            /\ UNCHANGED outputBuffer
       ELSE \E ok \in BOOLEAN :
            IF ok
            THEN /\ outputBuffer' = [outputBuffer EXCEPT ![r] =
                        [format |-> OutputEncoding(sharpInstance[r]),
                         image |-> OutputImage(sharpInstance[r]),
                         length |-> EncodedLength(OutputImage(sharpInstance[r]))]]
                 /\ Step(r, "toBuffer")
                 /\ pc' = [pc EXCEPT ![r] = "write"]
                 /\ UNCHANGED response
            ELSE /\ Throw(r, "toBuffer", "toBuffer")
                 /\ FinalCatch(r, "toBuffer")
                 /\ UNCHANGED outputBuffer
    /\ UNCHANGED <<body, fileId, sharpInstance, settled, files, touched, cleanupErr>>
    /\ UNCHANGED outside

\* WriteFile starting the write and going on before it has landed.
WriteFile_NotAwaited(r) ==
    /\ pc[r] = "write"
    /\ Step(r, "write")
    /\ pc' = [pc EXCEPT ![r] = "outputMetadata"]
    /\ UNCHANGED <<body, fileId, sharpInstance, settled, outputBuffer, response, files,
                   touched, cleanupErr>>
    /\ UNCHANGED outside

\* WriteFile logging a failed write and going on.
WriteFile_SwallowsError(r) ==
    /\ pc[r] = "write"
    /\ \E outcome \in {"written", "partial", "nothing"} :
        IF outcome = "nothing"
        THEN UNCHANGED <<files, touched>>
        ELSE /\ files' = WriteTo(outputPath(r),
                    [writer |-> r, kind |-> "output",
                     format |-> outputBuffer[r].format,
                     image |-> outputBuffer[r].image,
                     length |-> IF outcome = "written"
                                THEN outputBuffer[r].length ELSE 0])
             /\ Touch(r, outputPath(r))
    /\ Step(r, "write")
    /\ pc' = [pc EXCEPT ![r] = "outputMetadata"]
    /\ UNCHANGED <<body, fileId, sharpInstance, settled, outputBuffer, response,
                   cleanupErr>>
    /\ UNCHANGED outside

\* Lines 279-284: fs.writeFileSync(outputPath, outputBuffer).  The call
\* writes the whole buffer, or throws, having created no file or a file
\* without all of its bytes.
WriteFile(r) ==
    /\ pc[r] = "write"
    /\ \E outcome \in {"written", "partial", "nothing"} :
        /\ IF outcome = "nothing"
           THEN UNCHANGED <<files, touched>>
           ELSE /\ files' = WriteTo(outputPath(r),
                        [writer |-> r, kind |-> "output",
                         format |-> outputBuffer[r].format,
                         image |-> outputBuffer[r].image,
                         length |-> IF outcome = "written"
                                    THEN outputBuffer[r].length ELSE 0])
                /\ Touch(r, outputPath(r))
        /\ IF outcome = "written"
           THEN /\ Step(r, "write")
                /\ pc' = [pc EXCEPT ![r] = "outputMetadata"]
                /\ UNCHANGED response
           ELSE /\ Throw(r, "write", "writeFileSync")
                /\ FinalCatch(r, "writeFileSync")
    /\ UNCHANGED <<body, fileId, sharpInstance, settled, outputBuffer, cleanupErr>>
    /\ UNCHANGED outside

\* Lines 284-316: await sharp(outputBuffer).metadata(), then the success
\* body.
OutputMetadata(r) ==
    /\ pc[r] = "outputMetadata"
    /\ \E ok \in BOOLEAN :
        IF ok
        THEN Step(r, "respond") /\ Success(r)
        ELSE Throw(r, "metadata", "metadata") /\ FinalCatch(r, "metadata")
    /\ UNCHANGED <<body, fileId, sharpInstance, settled, outputBuffer, files, touched,
                   cleanupErr>>
    /\ UNCHANGED outside

Handler(r, B) ==
    \/ Receive(r, B)
    \/ ArrayBuffer(r)
    \/ InputMetadata(r)
    \/ ToFile(r)
    \/ AfterToFile(r)
    \/ MemoryToBuffer(r)
    \/ Resize(r)
    \/ Encoder(r)
    \/ ToBuffer(r)
    \/ WriteFile(r)
    \/ OutputMetadata(r)

\* One request at a time, over every body.
Next == Handler(1, Bodies)

----------------------------------------------------------------------------
(* The static route for uploads, line 371 *)

\* The part of a url that the pattern /uploads/* binds to "*", when the url
\* matches the pattern.
MatchesUploads(url) ==
    Len(url) > 3 /\ SubSeq(url, 1, 3) = <<"/", "uploads", "/">>

Wildcard(url) == SubSeq(url, 4, Len(url))

\* file(`uploads/${params["*"]}`): the file at that path, relative to the
\* working directory, or not found when there is none.
StaticFile(url) ==
    LET path == <<"uploads", "/">> \o Wildcard(url)
    IN  IF MatchesUploads(url) /\ Exists(path)
        THEN [status |-> 200, path |-> path, file |-> files[path]]
        ELSE [status |-> 404]

\* The client fetches the url of the success body.
Get(r) ==
    /\ response[r].status = 200
    /\ served[r] = NotServed
    /\ served' = [served EXCEPT ![r] = StaticFile(response[r].body.result.url)]
    /\ UNCHANGED <<pc, body, fileId, sharpInstance, settled, outputBuffer,
                   response, files, steps, touched, cleanupErr, ENV, mapResponse>>

\* The bodies of the configuration specification: the fields on which the
\* paths and the url depend.
ConfBodies ==
    {MakeBody({[size |-> 1, image |-> [w |-> 1, h |-> 1]]}, fm, {}, {}, {}, s) :
        fm \in Optional({"png"}), s \in Optional({"avif"})}

\* The server started in any environment.
ConfInit ==
    /\ UploadInit
    /\ ENV \in Envs
    /\ mapResponse = NotCalled

ConfNext ==
    \/ Handler(1, ConfBodies)
    \/ Get(1)

ConfSpec == ConfInit /\ [][ConfNext]_vars

Spec == Init /\ [][Next]_vars

\* The steps a handler takes in the same turn of the event loop as the one
\* before: nothing else runs until the handler reaches its next await.
Synchronous == {"resize", "encoder", "write"}

\* No other handler is in the middle of a turn of the event loop.
Turn(r) == \A q \in Requests \ {r} : pc[q] \notin Synchronous

\* Requests interleaved at their await points.
ConcNext == \E r \in Requests : Turn(r) /\ Handler(r, ConcBodies)

ConcSpec == Init /\ [][ConcNext]_vars

----------------------------------------------------------------------------
(* The compression plugin, lines 1-104 *)

DefaultThreshold == 2048

\* const defaultOptions
defaultOptions ==
    [encodings |-> <<"gzip", "br", "deflate">>,
     threshold |-> DefaultThreshold,
     contentTypes |-> Array(<<<<"application/json">>, <<"text/plain">>,
                              <<"text/html">>, <<"text/css">>,
                              <<"text/javascript">>,
                              <<"application/javascript">>>>)]

\* The algorithm each entry of compressors runs on the data.
compressors(encoding) ==
    CASE encoding = "br" -> "gzip"
      [] encoding = "gzip" -> "gzip"
      [] encoding = "deflate" -> "deflate"

\* Object.keys(compressors).includes(encoding)
isValidEncoding(encoding) == encoding \in {"br", "gzip", "deflate"}

\* string.split(separator) on a sequence of tokens.
RECURSIVE Split(_, _)
Split(s, separator) ==
    IF \A i \in 1..Len(s) : s[i] # separator
    THEN <<s>>
    ELSE LET i == CHOOSE k \in 1..Len(s) :
                    s[k] = separator /\ \A j \in 1..(k - 1) : s[j] # separator
         IN  <<SubSeq(s, 1, i - 1)>> \o Split(SubSeq(s, i + 1, Len(s)), separator)

\* string.trim(): the white space at both ends is dropped.
RECURSIVE Trim(_)
Trim(s) ==
    IF Len(s) > 0 /\ s[1] = " " THEN Trim(Tail(s))
    ELSE IF Len(s) > 0 /\ s[Len(s)] = " " THEN Trim(SubSeq(s, 1, Len(s) - 1))
    ELSE s

\* array.includes(string) for a string given as its tokens.
Includes(array, tokens) ==
    \E i \in 1..Len(array) : tokens = <<array[i]>>

\* request.headers.get("Accept-Encoding") || ""
acceptEncoding(request) ==
    IF Has(request.headers, "Accept-Encoding")
    THEN request.headers["Accept-Encoding"]
    ELSE <<>>

\* The entries of the header, each trimmed and cut at its first ";".
Candidates(request) ==
    LET entries == Split(acceptEncoding(request), ",")
    IN  [i \in 1..Len(entries) |-> Split(Trim(entries[i]), ";")[1]]

\* preferredEncoding going by the server's list: the first of opts.encodings
\* that is among the candidates.
preferredEncoding_ServerOrder(request, opts) ==
    LET enc == Candidates(request)
        hits == {i \in 1..Len(opts.encodings) :
                    \E j \in 1..Len(enc) : enc[j] = <<opts.encodings[i]>>}
    IN  IF hits = {} THEN Undefined
        ELSE LET first == CHOOSE i \in hits : \A j \in hits : i <= j
             IN  [t |-> "string", v |-> opts.encodings[first]]

\* The first candidate that opts.encodings includes, undefined when there
\* is none, lines 63-66.
preferredEncoding(request, opts) ==
    LET enc == Candidates(request)
        hits == {i \in 1..Len(enc) : Includes(opts.encodings, enc[i])}
    IN  IF hits = {} THEN Undefined
        ELSE LET first == CHOOSE i \in hits : \A j \in hits : i <= j
             IN  [t |-> "string", v |-> enc[first][1]]

\* getContentType deriving the type from the response alone.
getContentType_IgnoresHeader(resp, headers) ==
    IF resp.type = "object"
    THEN <<"application/json", "; charset=utf-8">>
    ELSE <<"text/plain", "; charset=utf-8">>

\* getContentType(response, headers), lines 39-54
getContentType(resp, headers) ==
    IF Has(headers, "Content-Type") /\ Len(headers["Content-Type"]) > 0
    THEN headers["Content-Type"]
    ELSE IF resp.type = "object"
    THEN <<"application/json", "; charset=utf-8">>
    ELSE <<"text/plain", "; charset=utf-8">>

\* string.startsWith(prefix) on sequences of tokens.
StartsWith(s, prefix) ==
    Len(s) >= Len(prefix) /\ SubSeq(s, 1, Len(prefix)) = prefix

\* !opts.contentTypes || opts.contentTypes.some(startsWith), lines 73-75
contentTypeMatches(contentType, opts) ==
    \/ opts.contentTypes = Undefined
    \/ \E i \in 1..Len(opts.contentTypes.v) :
            StartsWith(contentType, opts.contentTypes.v[i])

\* The length of JSON.stringify(response) for an object, of
\* response?.toString() ?? "" otherwise, lines 82-85.
TextLength(resp) == IF resp.type = "undefined" THEN 0 ELSE resp.chars

\* The hook answering with the response it was given.
Unchanged(m) ==
    [m EXCEPT !.phase = "returned",
              !.returned = [kind |-> "unchanged", value |-> m.response]]

\* Lines 92-101: the header is set and the compressed body returned.
Compressed(m, encoding, contentType) ==
    [m EXCEPT !.phase = "returned",
              !.set.headers = ("Content-Encoding" :> <<encoding>>) @@ @,
              !.returned =
                  [kind |-> "Response",
                   body |-> [algorithm |-> compressors(encoding),
                             of |-> m.response],
                   headers |-> ("Content-Type" :> contentType)
                                @@ ("Vary" :> <<"Accept-Encoding">>)]]

\* mapResponse(({request, response, set}) => ...), lines 60-102
MapResponse ==
    /\ mapResponse.phase = "called"
    /\ LET m == [mapResponse EXCEPT !.preferredEncoding =
                    preferredEncoding(mapResponse.request, mapResponse.opts)]
           enc == m.preferredEncoding
           contentType == getContentType(m.response, m.set.headers)
       IN  mapResponse' =
               IF enc = Undefined \/ ~isValidEncoding(enc.v)
               THEN Unchanged(m)
               ELSE IF ~contentTypeMatches(contentType, m.opts)
               THEN Unchanged(m)
               ELSE IF TextLength(m.response) < m.opts.threshold
               THEN Unchanged(m)
               ELSE Compressed(m, enc.v, contentType)
    /\ UNCHANGED <<pc, body, fileId, sharpInstance, settled, outputBuffer,
                   response, files, steps, touched, cleanupErr, ENV, served>>

\* An Accept-Encoding entry: a coding, with or without white space around
\* it and a quality parameter after it.
Entries ==
    {<<"gzip">>, <<" ", "br">>, <<"deflate", ";", "q=0.5">>,
     <<"gzip", ";", "q=0">>, <<"br", " ", ";", "q=1">>, <<"identity">>}

\* The lists of entries a client sends.
Listings == UNION {[1..n -> Entries] : n \in 0..MaxListed}

\* array.join(","): the header a list of entries makes.
RECURSIVE Header(_)
Header(listed) ==
    IF Len(listed) = 0 THEN <<>>
    ELSE IF Len(listed) = 1 THEN listed[1]
    ELSE listed[1] \o <<",">> \o Header(Tail(listed))

\* A request listing the entries; one that lists none has no header.
RequestListing(listed) ==
    [headers |-> IF Len(listed) = 0 THEN [x \in {} |-> <<>>]
                 ELSE ("Accept-Encoding" :> Header(listed))]

\* The options the plugin is created with: the defaults, overridden.
Options ==
    {[defaultOptions EXCEPT !.encodings = e, !.threshold = t, !.contentTypes = c] :
        e \in {defaultOptions.encodings, <<"deflate", "gzip">>, <<"br">>},
        t \in {defaultOptions.threshold, 4},
        c \in {defaultOptions.contentTypes, Undefined}}

\* The values a route returns, by type and serialized length.
Responses(threshold) ==
    {[type |-> "undefined"]}
    \cup [type : {"object", "string"}, chars : {threshold - 1, threshold, threshold + 1}]

\* set.headers before the hook runs.
SetHeaders ==
    {[x \in {} |-> <<>>], ("Content-Type" :> <<"text/html", "; charset=utf-8">>),
     ("Content-Type" :> <<"image/png">>)}

\* The hook is about to run on a response.
CompInit ==
    /\ UploadInit
    /\ ENV = DefaultEnv
    /\ \E listed \in Listings, opts \in Options, h \in SetHeaders :
        \E resp \in Responses(opts.threshold) :
            mapResponse =
                [phase |-> "called", listed |-> listed,
                 request |-> RequestListing(listed), response |-> resp,
                 set |-> [headers |-> h], opts |-> opts,
                 preferredEncoding |-> Undefined,
                 returned |-> [kind |-> "none"]]

CompNext == MapResponse

CompSpec == CompInit /\ [][CompNext]_vars

----------------------------------------------------------------------------
(* Properties *)

LastStep(r) == steps[r][Len(steps[r])]

\* The request took the step and it did not throw.
Took(r, label) ==
    \E i \in 1..Len(steps[r]) :
        steps[r][i].step = label /\ steps[r][i].error = "none"

\* The request's step threw.
Threw(r, label) ==
    \E i \in 1..Len(steps[r]) :
        steps[r][i].step = label /\ steps[r][i].error # "none"

\* The files a request wrote as its output.
OutputsOf(r) ==
    {p \in DOMAIN files : files[p].writer = r /\ files[p].kind = "output"}

\* C1: a request whose file field is absent, or whose file has size 0, is
\* answered with status 400 and the body {error: "Invalid file data"}.
C1_InvalidFileIs400 ==
    \A r \in Requests :
        (/\ pc[r] # "idle"
         /\ ("file" \notin DOMAIN body[r] \/ body[r].file.size = 0))
        => /\ pc[r] = "done"
           /\ response[r] = [status |-> 400, body |-> [error |-> "Invalid file data"]]

C1_Witness ==
    \E r \in Requests :
        /\ pc[r] = "done"
        /\ "file" \in DOMAIN body[r]
        /\ body[r].file.size = 0
        /\ response[r].status = 400

\* C2, as claimed: every exception raised at any stage of the handler gives a
\* 500 response whose body carries a stage label and the stringified error.
C2_Original ==
    \A r \in Requests : \A i \in 1..Len(steps[r]) :
        steps[r][i].error # "none"
        => /\ response[r].status = 500
           /\ "stage" \in DOMAIN response[r].body
           /\ response[r].body.details = String(steps[r][i].error)

\* C2, amended: an exception raised while reading the upload buffer, in the
\* resize call or in the encoder call gives a 500 response with the
\* stringified error and no stage label; one raised in the final stage
\* (encode to buffer, file write, output metadata) gives a 500 response with
\* the stringified error and the stage label final_processing; one raised in
\* the AVIF pre-transcode gives no response, the handler goes on.
C2_ExceptionResponses ==
    \A r \in Requests : \A i \in 1..Len(steps[r]) :
        LET e == steps[r][i] IN
        e.error # "none"
        => CASE e.step \in {"buffer", "resize", "encoder"} ->
                    response[r] =
                        [status |-> 500,
                         body |-> [error |-> "Image processing failed",
                                   details |-> String(e.error)]]
             [] e.step \in {"toBuffer", "write", "metadata"} ->
                    response[r] =
                        [status |-> 500,
                         body |-> [error |-> "Image processing failed in final stage",
                                   details |-> String(e.error),
                                   stage |-> "final_processing"]]
             [] e.step \in {"avifTempFile", "avifMemory"} ->
                    i = Len(steps[r]) => response[r] = NoResponse /\ pc[r] # "done"
             [] OTHER -> FALSE

C2_Witness ==
    \E r \in Requests :
        /\ pc[r] = "done"
        /\ LastStep(r).step = "encoder"
        /\ LastStep(r).error # "none"
        /\ response[r].status = 500
        /\ "stage" \notin DOMAIN response[r].body

\* The format a body asks for, clamped to the allow-list.
RequestedFormat(b) ==
    IF "format" \in DOMAIN b /\ b.format \in {"webp", "avif", "jpeg", "png"}
    THEN b.format
    ELSE "webp"

\* C3: the encoder, the extension of the output file and the format field of
\* the response all use one format, which is the requested format when that
\* is webp, avif, jpeg or png, and webp otherwise.
C3_OneClampedFormat ==
    \A r \in Requests :
        LET f == RequestedFormat(body[r])
            calls == sharpInstance[r].encoderCalls
        IN  /\ \A i \in 1..Len(calls) : calls[i].encoder = f
            /\ outputBuffer[r] # NoBuffer => outputBuffer[r].format = f
            /\ \A p \in OutputsOf(r) : p[Len(p)] = f /\ files[p].format = f
            /\ response[r].status = 200
               => /\ response[r].body.result.format = f
                  /\ LET u == response[r].body.result.url IN u[Len(u)] = f

C3_Witness ==
    \E r \in Requests :
        /\ response[r].status = 200
        /\ "format" \in DOMAIN body[r]
        /\ body[r].format = "gif"
        /\ response[r].body.result.format = "webp"
        /\ OutputsOf(r) # {}

\* C4: when the success body is returned, the output is on disk at
\* <UPLOAD_DIR>/<id>.<format>, and the body carries that id, that format, the
\* byte length and pixel size of what was written, and the url
\* <PUBLIC_URL>/<id>.<format>.
C4_SuccessDescribesWrittenFile ==
    \A r \in Requests :
        response[r].status = 200
        => LET res == response[r].body.result
               name == res.id \o <<".", res.format>>
               path == <<"uploads", "/">> \o name
           IN  /\ res.id = fileId[r]
               /\ path \in DOMAIN files
               /\ files[path].writer = r
               /\ files[path].kind = "output"
               /\ files[path].format = res.format
               /\ res.size = files[path].length
               /\ res.width = files[path].image.w
               /\ res.height = files[path].image.h
               /\ res.url = <<"/", "uploads", "/">> \o name

C4_Witness ==
    \E r \in Requests :
        /\ response[r].status = 200
        /\ response[r].body.result.size > 1
        /\ OutputsOf(r) # {}

AvifDeclared(b) == "sourceFormat" \in DOMAIN b /\ b.sourceFormat = "avif"

Supplied(b, field) == field \in DOMAIN b /\ Len(b[field]) > 0

\* The field was sent with a numeric value other than 0.
SuppliedNonZero(b, field) ==
    Supplied(b, field) /\ Number(b[field]) # NaN /\ Number(b[field]) # Num(0)

\* The handler is past the place of the resize call.
PastResize(r) ==
    \/ pc[r] = "encoder"
    \/ \E i \in 1..Len(steps[r]) : steps[r][i].step \in {"resize", "encoder"}

ResizeApplied(r) == Len(sharpInstance[r].resizeCalls) > 0

\* The output, when there is one, fits the input image and the bounds sent.
OutputFitsInside(r) ==
    outputBuffer[r] # NoBuffer
    => LET in == body[r].file.image
           out == outputBuffer[r].image
       IN  IF ResizeApplied(r)
           THEN /\ out.w <= in.w
                /\ out.h <= in.h
                /\ SuppliedNonZero(body[r], "width")
                   => out.w <= Number(body[r].width).v
                /\ SuppliedNonZero(body[r], "height")
                   => out.h <= Number(body[r].height).v
           ELSE out = in

RequestedQuality(b) ==
    IF "quality" \in DOMAIN b /\ b.quality # <<>> THEN Number(b.quality)
    ELSE Num(80)

\* C7: a request that reaches the encode step has exactly one encoder call,
\* that of the clamped output format, with the numeric value of the quality
\* field, or 80 when the field is absent or empty.
C7_OneEncoderWithQuality ==
    \A r \in Requests :
        (\E i \in 1..Len(steps[r]) : steps[r][i].step = "encoder")
        => LET calls == sharpInstance[r].encoderCalls
           IN  /\ Len(calls) = 1
               /\ calls[1].encoder = RequestedFormat(body[r])
               /\ calls[1].quality = RequestedQuality(body[r])

C7_Witness ==
    \E r \in Requests :
        /\ Took(r, "encoder")
        /\ "quality" \in DOMAIN body[r]
        /\ body[r].quality = <<>>
        /\ sharpInstance[r].encoderCalls[1].quality = Num(80)
        /\ sharpInstance[r].encoderCalls[1].encoder = "png"

\* The place of each step in the chain validate, buffer, AVIF pre-transcode,
\* resize, encode, write, respond.
Rank(label) ==
    CASE label = "validate" -> 1
      [] label = "buffer" -> 2
      [] label = "avifTempFile" -> 3
      [] label = "avifMemory" -> 4
      [] label = "resize" -> 5
      [] label = "encoder" -> 6
      [] label = "toBuffer" -> 7
      [] label = "write" -> 8
      [] label \in {"metadata", "respond"} -> 9

\* C8: the steps of a request happen in the order validate, buffer, optional
\* AVIF pre-transcode, resize, encode, write, respond, each after the one
\* before has finished; the output file is written only after validation
\* passed and the encode produced a buffer, and the success body is produced
\* only after the file write.
C8_StepsInOrder ==
    \A r \in Requests :
        /\ \A i, j \in 1..Len(steps[r]) :
                i < j => Rank(steps[r][i].step) < Rank(steps[r][j].step)
        /\ \A i \in 1..Len(steps[r]) :
                (i < Len(steps[r]) /\ steps[r][i].error # "none")
                => steps[r][i].step \in {"avifTempFile", "avifMemory"}
        /\ \A i \in 1..Len(steps[r]) :
                /\ Rank(steps[r][i].step) > 1 => Took(r, "validate")
                /\ Rank(steps[r][i].step) > 2 => Took(r, "buffer")
                /\ Rank(steps[r][i].step) > 6 => Took(r, "encoder")
                /\ Rank(steps[r][i].step) > 7 => Took(r, "toBuffer")
                /\ Rank(steps[r][i].step) > 8 => Took(r, "write")
        /\ OutputsOf(r) # {}
           => /\ Took(r, "validate")
              /\ "file" \in DOMAIN body[r] /\ body[r].file.size > 0
              /\ Took(r, "toBuffer")
              /\ outputBuffer[r] # NoBuffer
        /\ response[r].status = 200
           => /\ Took(r, "write")
              /\ OutputsOf(r) # {}
              /\ LastStep(r).step = "respond"

C8_Witness ==
    \E r \in Requests :
        /\ response[r].status = 200
        /\ Len(steps[r]) = 9
        /\ OutputsOf(r) # {}

\* C9: the quality handed to the encoder lies in 0..100.
C9_QualityInRange ==
    \A r \in Requests :
        \A i \in 1..Len(sharpInstance[r].encoderCalls) :
            LET q == sharpInstance[r].encoderCalls[i].quality
            IN  q.t = "number" /\ q.v >= 0 /\ q.v <= 100

\* The paths a request uses, from its identifier and its body.
OutputPathOf(r) ==
    <<"uploads", "/">> \o fileId[r] \o <<".", RequestedFormat(body[r])>>

TempPathOf(r) == <<"uploads", "/">> \o fileId[r] \o <<"_temp", ".", "jpg">>

\* No two requests share an output path or a temp path, and the files a
\* request wrote are at its own paths.
PathsDistinct ==
    /\ \A r, q \in Requests :
            (r < q /\ fileId[r] # NoId /\ fileId[q] # NoId)
            => LET outR == OutputPathOf(r)
                   tmpR == TempPathOf(r)
                   outQ == OutputPathOf(q)
                   tmpQ == TempPathOf(q)
               IN  outR # outQ /\ tmpR # tmpQ /\ outR # tmpQ /\ outQ # tmpR
    /\ \A p \in DOMAIN files :
            p = OutputPathOf(files[p].writer) \/ p = TempPathOf(files[p].writer)

\* No file was replaced or removed by a request other than the one that
\* created it.
OwnFilesOnly == touched = {}

\* C10: under any interleaving, two distinct requests never use the same
\* output path or the same temp path, and no request overwrites or deletes a
\* file another request created.
C10_RequestsKeepToTheirPaths == PathsDistinct /\ OwnFilesOnly

C10_Witness ==
    \E r, q \in Requests :
        /\ r # q
        /\ AvifDeclared(body[r])
        /\ AvifDeclared(body[q])
        /\ settled[r] = "resolved"
        /\ TempPathOf(r) \notin DOMAIN files
        /\ pc[r] = "done"
        /\ response[q].status = 200
        /\ OutputPathOf(q) \in DOMAIN files
        /\ TempPathOf(q) \in DOMAIN files

\* C11: when sourceFormat is "avif" and both the temp-file transcode and the
\* in-memory transcode threw, the handler gives no response at that stage;
\* it goes on to the resize and encode steps with the pipeline built on the
\* original upload buffer.
C11_LastResortIsOriginal ==
    \A r \in Requests :
        (Threw(r, "avifTempFile") /\ Threw(r, "avifMemory"))
        => /\ AvifDeclared(body[r])
           /\ sharpInstance[r].input =
                [kind |-> "original", image |-> body[r].file.image]
           /\ LastStep(r).step = "avifMemory"
              => response[r] = NoResponse /\ pc[r] \in {"resize", "encoder"}
           /\ pc[r] = "done"
              => \E i \in 1..Len(steps[r]) :
                    steps[r][i].step \in {"resize", "encoder", "toBuffer"}
           /\ outputBuffer[r] # NoBuffer
              => /\ Took(r, "encoder")
                 /\ outputBuffer[r].format = RequestedFormat(body[r])

C11_Witness ==
    \E r \in Requests :
        /\ Threw(r, "avifTempFile")
        /\ Threw(r, "avifMemory")
        /\ Took(r, "resize")
        /\ response[r].status = 200
        /\ sharpInstance[r].input.kind = "original"

\* The handler is past the AVIF pre-transcode stage.
PastPreTranscode(r) ==
    pc[r] \in {"resize", "encoder", "toBuffer", "write", "outputMetadata", "done"}

\* C12: for a request with sourceFormat "avif", once the pre-transcode stage
\* has finished, whichever way, the temp file <id>_temp.jpg is not in the
\* upload directory unless its unlink failed; a failed unlink is logged, the
\* file stays, and the request goes on.
C12_TempFileRemoved ==
    \A r \in Requests :
        /\ (AvifDeclared(body[r]) /\ PastPreTranscode(r) /\ ~cleanupErr[r])
           => TempPathOf(r) \notin DOMAIN files
        /\ cleanupErr[r]
           => /\ AvifDeclared(body[r])
              /\ PastPreTranscode(r)
              /\ TempPathOf(r) \in DOMAIN files
              /\ LastStep(r).step \in {"avifTempFile", "avifMemory"}
                 => response[r] = NoResponse /\ pc[r] \in {"resize", "encoder"}

C12_Witness ==
    \E r \in Requests :
        /\ AvifDeclared(body[r])
        /\ Took(r, "avifTempFile")
        /\ ~cleanupErr[r]
        /\ TempPathOf(r) \notin DOMAIN files
        /\ pc[r] = "encoder"

\* C13: whenever the final encode of a request is about to run on a pipeline
\* whose input is the temp JPEG file path, that file is still on disk: the
\* cleanup never removes it before its last reader has read it.
C13_TempFileOutlivesReader ==
    \A r \in Requests :
        (pc[r] = "toBuffer" /\ sharpInstance[r].input.kind = "file")
        => sharpInstance[r].input.path \in DOMAIN files

\* The files in the upload directory that a request wrote.
FilesOf(r) == {p \in DOMAIN files : files[p].writer = r}

\* C14, as claimed: once a request has completed, an output file of it is in
\* the upload directory exactly when its response is the success body; a
\* request answered with 400 or 500 leaves no file of its own.
C14_Original ==
    \A r \in Requests :
        pc[r] = "done"
        => /\ OutputsOf(r) # {} <=> response[r].status = 200
           /\ response[r].status \in {400, 500} => FilesOf(r) = {}

\* C14, amended: once a request has completed, the success body means its
\* output file <id>.<format> is in the upload directory with all its bytes;
\* a 400, or a 500 raised before the file write, means it left no output
\* file; a 500 raised by the output metadata step leaves the written output
\* file in place, and a 500 raised by the write itself may leave an
\* incomplete one; any other file of the request is its temp file, left only
\* when the unlink failed.
C14_OutputFileAndResponse ==
    \A r \in Requests :
        pc[r] = "done"
        => /\ OutputsOf(r) \subseteq {OutputPathOf(r)}
           /\ response[r].status = 200
              => /\ OutputsOf(r) = {OutputPathOf(r)}
                 /\ files[OutputPathOf(r)].length = outputBuffer[r].length
           /\ (\/ response[r].status = 400
               \/ /\ response[r].status = 500
                  /\ LastStep(r).step \in {"buffer", "resize", "encoder", "toBuffer"})
              => OutputsOf(r) = {}
           /\ (response[r].status = 500 /\ LastStep(r).step = "metadata")
              => /\ OutputsOf(r) = {OutputPathOf(r)}
                 /\ files[OutputPathOf(r)].length = outputBuffer[r].length
           /\ FilesOf(r) \ OutputsOf(r) # {}
              => cleanupErr[r] /\ FilesOf(r) \ OutputsOf(r) = {TempPathOf(r)}

C14_Witness ==
    \E r \in Requests :
        /\ pc[r] = "done"
        /\ response[r].status = 500
        /\ LastStep(r).step = "metadata"
        /\ OutputPathOf(r) \in DOMAIN files

\* C15: in every configuration of UPLOAD_DIR and PUBLIC_URL, a GET of the
\* url of a success body is answered by the static route for uploads with
\* the file the handler wrote for that request.
C15_UrlServesWrittenFile ==
    \A r \in Requests :
        served[r] # NotServed
        => /\ served[r].status = 200
           /\ served[r].file.writer = r
           /\ served[r].file.kind = "output"
           /\ served[r].file.length = response[r].body.result.size
           /\ served[r].path \in OutputsOf(r)

\* The encodings the plugin is configured with, in no order.
Configured(m) == {m.opts.encodings[i] : i \in 1..Len(m.opts.encodings)}

\* An entry of Accept-Encoding as the client wrote it, without the white
\* space around the entry and without its parameter: the tokens from the
\* first that is not white space up to the first ";", or, when there is no
\* ";", up to the last that is not white space.
WithoutParameter(entry) ==
    LET ink == {i \in 1..Len(entry) : entry[i] # " "}
        semis == {i \in 1..Len(entry) : entry[i] = ";"}
        from == CHOOSE i \in ink : \A j \in ink : i <= j
        upto == IF semis # {}
                THEN (CHOOSE i \in semis : \A j \in semis : i <= j) - 1
                ELSE CHOOSE i \in ink : \A j \in ink : i >= j
    IN  IF ink = {} THEN <<>> ELSE SubSeq(entry, from, upto)

\* The listed entries that name a configured encoding.
Acceptable(m) ==
    {i \in 1..Len(m.listed) :
        \E e \in Configured(m) : WithoutParameter(m.listed[i]) = <<e>>}

\* The content type of the response: the Content-Type header that the
\* route set, else JSON for an object and plain text for anything else.
ContentTypeOf(m) ==
    IF "Content-Type" \in DOMAIN m.set.headers
    THEN m.set.headers["Content-Type"][1]
    ELSE IF m.response.type = "object" THEN "application/json" ELSE "text/plain"

\* The content type is one of the configured content types.
ContentTypeListed(m) ==
    /\ m.opts.contentTypes.t = "array"
    /\ \E i \in 1..Len(m.opts.contentTypes.v) :
            m.opts.contentTypes.v[i] = <<ContentTypeOf(m)>>

\* The serialized body is at least as long as the threshold.
ReachesThreshold(m) ==
    m.response.type # "undefined" /\ m.response.chars >= m.opts.threshold

\* The hook returned the response it was given and announced no encoding.
LeftUnchanged(m) ==
    /\ m.returned = [kind |-> "unchanged", value |-> m.response]
    /\ "Content-Encoding" \notin DOMAIN m.set.headers

\* The hook returned the compressed body, with Vary: Accept-Encoding.
ReturnedCompressed(m) ==
    /\ m.returned.kind = "Response"
    /\ m.returned.body.of = m.response
    /\ m.returned.headers["Vary"] = <<"Accept-Encoding">>
    /\ "Content-Encoding" \in DOMAIN m.set.headers

\* C16, as claimed: the response is compressed, with Vary: Accept-Encoding,
\* when the Accept-Encoding lists a configured encoding, the content type
\* starts with one of the configured content types and the serialized body
\* reaches the threshold; in every other case it is returned unchanged with
\* no Content-Encoding set.
C16_Original ==
    mapResponse.phase = "returned"
    => IF /\ Acceptable(mapResponse) # {}
          /\ ContentTypeListed(mapResponse)
          /\ ReachesThreshold(mapResponse)
       THEN ReturnedCompressed(mapResponse)
       ELSE LeftUnchanged(mapResponse)

\* C16, amended: the same, where the content type condition also holds for
\* every content type when the plugin is configured with contentTypes
\* undefined.
C16_CompressedWhenAllThree ==
    mapResponse.phase = "returned"
    => IF /\ Acceptable(mapResponse) # {}
          /\ \/ ContentTypeListed(mapResponse)
             \/ mapResponse.opts.contentTypes.t = "undefined"
          /\ ReachesThreshold(mapResponse)
       THEN ReturnedCompressed(mapResponse)
       ELSE LeftUnchanged(mapResponse)

C16_Witness ==
    /\ mapResponse.phase = "returned"
    /\ mapResponse.returned.kind = "Response"
    /\ mapResponse.opts.contentTypes.t = "undefined"
    /\ "Content-Type" \in DOMAIN mapResponse.set.headers
    /\ mapResponse.set.headers["Content-Type"] = <<"image/png">>
    /\ mapResponse.response.chars = mapResponse.opts.threshold

\* C17: the encoding chosen is that of the first entry, in the order the
\* client listed them and with the parameter of each left out, that names a
\* configured encoding, and none when no entry does; neither the order of
\* the configured encodings nor the q-values play a part.
C17_FirstListedConfigured ==
    mapResponse.phase = "returned"
    => LET m == mapResponse
           chosen == m.preferredEncoding
       IN  /\ Acceptable(m) = {} => chosen.t = "undefined"
           /\ Acceptable(m) # {}
              => /\ chosen.t = "string"
                 /\ \E i \in Acceptable(m) :
                        /\ \A j \in Acceptable(m) : i <= j
                        /\ WithoutParameter(m.listed[i]) = <<chosen.v>>
           /\ m.returned.kind = "Response"
              => m.set.headers["Content-Encoding"] = <<chosen.v>>

C17_Witness ==
    /\ mapResponse.phase = "returned"
    /\ mapResponse.listed = <<<<"deflate", ";", "q=0.5">>, <<"gzip">>>>
    /\ mapResponse.opts.encodings = <<"gzip", "br", "deflate">>
    /\ mapResponse.preferredEncoding.t = "string"
    /\ mapResponse.preferredEncoding.v = "deflate"
    /\ mapResponse.returned.kind = "Response"

\* C18: a response is compressed only if its serialized content is longer
\* than the threshold; at the threshold or below it is returned as it is.
C18_OnlyAboveThreshold ==
    (mapResponse.phase = "returned" /\ mapResponse.returned.kind = "Response")
    => mapResponse.response.chars > mapResponse.opts.threshold

\* C19: the Content-Encoding of a compressed response names the algorithm
\* that produced its body: gzip for gzip, deflate for deflate, brotli for br.
C19_EncodingNamesAlgorithm ==
    (mapResponse.phase = "returned" /\ mapResponse.returned.kind = "Response")
    => LET announced == mapResponse.set.headers["Content-Encoding"]
           algorithm == mapResponse.returned.body.algorithm
       IN  \/ announced = <<"gzip">> /\ algorithm = "gzip"
           \/ announced = <<"deflate">> /\ algorithm = "deflate"
           \/ announced = <<"br">> /\ algorithm = "brotli"

====
